---------------------------- MODULE Spec2Model ----------------------------
(***************************************************************************)
(* A model of coros_data_extractor: the CorosDataExtractor client          *)
(* (src/coros_data_extractor/data/__init__.py) with its listing, detail    *)
(* fetch, extraction and export pipelines, against a Coros server whose    *)
(* answers are chosen nondeterministically, and the translation functions  *)
(* with the models of src/coros_data_extractor/model.py.                   *)
(*                                                                         *)
(* Python's None is modelled by the empty sequence/set: an optional value  *)
(* is None == {} or {v}; an optional result is <<>> or <<v>>.              *)
(***************************************************************************)
EXTENDS Integers, Sequences, FiniteSets, TLC

(***************************************************************************)
(* Bounds of the model.                                                    *)
(***************************************************************************)
\* the vendor's pagination limit, scaled down
PageLimit == 2
\* the largest number of activities the server holds
MaxTotal == 5
\* the largest limit argument a caller passes
MaxLimit == 3
\* the largest max_tries argument a direct caller of get_raw_activity_data passes
MaxTriesArg == 3
\* the largest number of items of a raw lap list
MaxLapItems == 2
\* the largest number of items of a raw sample list
MaxSamples == 2
\* the largest vendor timestamp (centiseconds since the epoch)
MaxCenti == 250
\* the access tokens and the user ids that the server hands out are
\* 1..MaxTokens
MaxTokens == 2

(***************************************************************************)
(* Program constants.                                                      *)
(***************************************************************************)
ACTIVITY_PAGINATION_LIMIT == PageLimit
MAX_TRIES == 3
\* WAIT_BETWEEN_RETRIES = 0.5 (seconds), in milliseconds
WAIT_BETWEEN_RETRIES == 500

None == {}
Some(v) == {v}
Val(o) == CHOOSE v \in o : TRUE

Min(a, b) == IF a <= b THEN a ELSE b
\* math.ceil(a / b) for a >= 0, b > 0
Ceil(a, b) == (a + b - 1) \div b

RECURSIVE Flatten(_)
Flatten(ss) == IF ss = <<>> THEN <<>> ELSE Head(ss) \o Flatten(Tail(ss))

RECURSIVE SumSeq(_)
SumSeq(s) == IF s = <<>> THEN 0 ELSE Head(s) + SumSeq(Tail(s))

Reverse(s) == [i \in 1..Len(s) |-> s[Len(s) + 1 - i]]

(***************************************************************************)
(* The server.  It holds serverCount activities, labelId 1 being the       *)
(* first one listed.                                                       *)
(***************************************************************************)
\* The sport types of its activities: the first one and the fourth one have
\* codes that ActivityType does not know.
SportTypeOf(i) ==
  CASE i = 1 -> 999
    [] i = 2 -> 201
    [] i = 3 -> 100
    [] i = 4 -> 998
    [] OTHER -> 101

ActivityRef(i) == [labelId |-> i, sportType |-> SportTypeOf(i)]

\* the page the server holds for (pageNumber, size)
HonestSlice(count, pageNumber, size) ==
  LET lo == (pageNumber - 1) * size + 1
      hi == Min(pageNumber * size, count)
  IN  [k \in 1..(IF hi >= lo THEN hi - lo + 1 ELSE 0) |-> ActivityRef(lo + k - 1)]

\* what the server may answer to a page request: the page it holds, or a
\* stale answer that repeats its first page in another order
PageAnswers(count, pageNumber, size) ==
  { HonestSlice(count, pageNumber, size) }
  \cup (IF pageNumber > 1 THEN { Reverse(HonestSlice(count, 1, size)) } ELSE {})

VARIABLES
  access_token,                 \* self.access_token
  user_id,                      \* self.user_id
  lastLogin,                    \* the accessToken and userId that the last
                                \* login call that returned was answered with
  loginLog,                     \* the requests of the login call, while login
                                \* is the last operation
  json_file,                    \* what the to_json call wrote to its file,
                                \* while to_json is the last operation
  pastListing,                  \* an extract_data call has had its listing
                                \* returned
  default_activity_query_limit, \* self.default_activity_query_limit
  activities,                   \* self.activities: [loaded, root]
  serverCount,                  \* data.count of the server
  op,                           \* the top-level operation running or last run
  pc,                           \* where the operation stands
  raised,                       \* the exception that left the operation
  sessions,                     \* the requests.Session objects open now
  arg_limit,                    \* get_activities: the limit argument
  limit,                        \* _get_activities_inner: limit
  total_activities,             \* _get_activities_inner: total_activities
  size,                         \* _get_activities_inner: payload["size"]
  num_pages,                    \* _get_activities_inner: num_pages
  page_number,                  \* _get_activities_inner: page_number
  datalist,                     \* _get_activities_inner: datalist
  listLog,                      \* the listing requests issued by the operation
  listResult,                   \* what get_activities returned
  max_tries,                    \* get_raw_activity_data: max_tries
  retries_left,                 \* get_raw_activity_data: retries_left
  activity,                     \* get_raw_activity_data: activity
  fetchLog,                     \* the detail requests of the fetch in progress,
                                \* or of the fetch whose end ended the operation
  fetchEnd,                     \* how the fetch stands after its last attempt
  fetchResult,                  \* what get_raw_activity_data returned then
  err_msg,                      \* get_raw_activity_data: err_msg, None while
                                \* the RuntimeError is not raised
  sleeps,                       \* the time.sleep calls of the fetch that
                                \* fetchLog is about: their durations
  refs,                         \* _extract_data_inner: activities (the listing)
  idx,                          \* _extract_data_inner: position in the listing
  succeeded,                    \* per processed reference: was it added
  stepLog,                      \* the LOGGER calls of the last step
  file_type,                    \* _export_activities_inner: file_type
  exp_sport_type,               \* _export_activities_inner: sport_type, None
                                \* while the name is not bound
  files,                        \* the labelId of the files written to the
                                \* output directory of the export
  requests,                     \* the download requests of the last step
  call                          \* the last call of a translation function:
                                \* its name, arguments and result

authVars == <<access_token, user_id, lastLogin>>
persistVars == <<authVars, default_activity_query_limit, activities, pastListing,
                 serverCount>>
ctlVars == <<op, pc, raised, sessions>>
listVars == <<arg_limit, limit, total_activities, size, num_pages, page_number, datalist,
              listLog, listResult>>
fetchVars == <<max_tries, retries_left, activity, fetchLog, fetchEnd, fetchResult,
               err_msg, sleeps>>
extractVars == <<refs, idx, succeeded>>
exportVars == <<file_type, exp_sport_type, files, requests>>
opOutVars == <<loginLog, json_file>>
vars == <<persistVars, ctlVars, listVars, fetchVars, extractVars, stepLog, exportVars,
          call, opOutVars>>

NoActivity == [labelId |-> 0, sportType |-> 0]

NoCall == [fn |-> "none", args |-> <<>>, result |-> <<>>]

\* CorosDataExtractor.__init__
Init ==
  /\ access_token = None
  /\ user_id = None
  /\ lastLogin = None
  /\ loginLog = <<>>
  /\ json_file = None
  /\ pastListing = FALSE
  /\ default_activity_query_limit \in {None, Some(MaxLimit)}
  /\ activities = [loaded |-> FALSE, root |-> <<>>]
  /\ serverCount \in 0..MaxTotal
  /\ op = "none"
  /\ pc = "idle"
  /\ raised = "none"
  /\ sessions = {}
  /\ arg_limit = None
  /\ limit = None
  /\ total_activities = 0
  /\ size = 0
  /\ num_pages = 0
  /\ page_number = 0
  /\ datalist = <<>>
  /\ listLog = <<>>
  /\ listResult = <<>>
  /\ max_tries = 0
  /\ retries_left = 0
  /\ activity = NoActivity
  /\ fetchLog = <<>>
  /\ fetchEnd = "none"
  /\ fetchResult = <<>>
  /\ err_msg = None
  /\ sleeps = <<>>
  /\ refs = <<>>
  /\ idx = 0
  /\ succeeded = <<>>
  /\ stepLog = <<>>
  /\ call = NoCall
  /\ file_type = None
  /\ exp_sport_type = None
  /\ files = {}
  /\ requests = <<>>

Idle == pc \in {"idle", "done"}

\* no get_raw_activity_data call exists: its locals hold nothing
NoFetch ==
  /\ max_tries' = 0
  /\ retries_left' = 0
  /\ activity' = NoActivity
  /\ fetchLog' = <<>>
  /\ fetchEnd' = "none"
  /\ fetchResult' = <<>>
  /\ err_msg' = None
  /\ sleeps' = <<>>

\* no _extract_data_inner call exists: its locals hold nothing
NoExtract ==
  /\ refs' = <<>>
  /\ idx' = 0
  /\ succeeded' = <<>>

\* no _export_activities_inner call exists: its locals hold nothing
NoExport ==
  /\ file_type' = None
  /\ exp_sport_type' = None
  /\ files' = {}
  /\ requests' = <<>>

\* no _get_activities_inner call exists: its locals hold nothing
NoListing ==
  /\ arg_limit' = None
  /\ limit' = None
  /\ total_activities' = 0
  /\ size' = 0
  /\ num_pages' = 0
  /\ page_number' = 0
  /\ datalist' = <<>>
  /\ listLog' = <<>>
  /\ listResult' = <<>>

\* the sessions that the with statement of an operation opens: line 111 for
\* export_activities, line 483 for extract_data; get_activities opens its
\* own (line 245), also when one of the two calls it
SessionsOf(o) ==
  CASE o = "export_activities" -> {"dl_session", "query_session"}
    [] o = "extract_data" -> {"session"}
    [] OTHER -> {}

ListingSession(o) ==
  IF o \in {"get_activities", "extract_data", "export_activities"}
    THEN {"get_activities.session"}
    ELSE {}

\* sessions closed by a close() that follows the block, which an exception
\* skips
ExitOnReturnOnly(open, e) == IF e = "none" THEN {} ELSE open

\* the exit of a with statement closes its sessions, however the block is
\* left
WithExit(open, e) == {}

\* the sessions open after a step that leads to op', pc' and raised'
TrackSessions ==
  sessions' =
    LET inListing == pc \in {"probe", "pages"} \/ pc \in {"idle", "done"}
        before == SessionsOf(op') \cup (IF inListing THEN ListingSession(op') ELSE {})
    IN  IF pc' = "done"
          THEN WithExit(before, raised')
          ELSE SessionsOf(op')
               \cup (IF pc' \in {"probe", "pages"} THEN ListingSession(op') ELSE {})


(***************************************************************************)
(* Authentication: login.                                                  *)
(***************************************************************************)
\* What the login request may yield.  status: requests.post raises
\* ("exception"), raise_for_status raises ("error"), or a body arrives
\* ("ok"); data: the "data" key of the body is absent, null or an object;
\* fields: that object, a function from its keys.
LoginResponse(status, data, fields) == [status |-> status, data |-> data, fields |-> fields]

Tokens == 1..MaxTokens

LoginResponses ==
  { LoginResponse("exception", "absent", <<>>), LoginResponse("error", "absent", <<>>),
    LoginResponse("ok", "absent", <<>>), LoginResponse("ok", "null", <<>>) }
  \cup { LoginResponse("ok", "obj", f) :
           f \in UNION { [K -> Tokens] : K \in SUBSET {"accessToken", "userId"} } }

\* lines 83-87: requests.post(LOGIN_URL, json=request_data,
\* timeout=SIMPLE_QUERY_API_TIMEOUT)
LoginRequest(r) == [kind |-> "login", timeout |-> "SIMPLE_QUERY_API_TIMEOUT", response |-> r]

\* the token of the response stored as the user id
StoredTokenAsUserId(data_wrapped) == Some(data_wrapped["accessToken"])

\* line 91: self.user_id = data_wrapped["userId"]
StoredUserId(data_wrapped) == Some(data_wrapped["userId"])

\* login (lines 69-91)
Login ==
  /\ Idle
  /\ op' = "login"
  /\ pc' = "done"
  /\ NoListing /\ NoFetch /\ NoExtract /\ NoExport
  /\ stepLog' = <<>>
  /\ UNCHANGED <<default_activity_query_limit, activities, pastListing, serverCount,
                 call>>
  /\ json_file' = None
  /\ \E r \in LoginResponses :
       /\ loginLog' = <<LoginRequest(r)>>
       /\ CASE r.status = "exception" ->
                 /\ raised' = "RequestException"
                 /\ UNCHANGED authVars
            [] r.status = "error" ->
                 \* line 88
                 /\ raised' = "HTTPError"
                 /\ UNCHANGED authVars
            [] r.status = "ok" /\ r.data = "absent" ->
                 \* line 89
                 /\ raised' = "KeyError"
                 /\ UNCHANGED authVars
            [] r.status = "ok" /\ r.data = "null" ->
                 /\ raised' = "TypeError"
                 /\ UNCHANGED authVars
            [] r.status = "ok" /\ r.data = "obj" /\ "accessToken" \notin DOMAIN r.fields ->
                 \* line 90
                 /\ raised' = "KeyError"
                 /\ UNCHANGED authVars
            [] r.status = "ok" /\ r.data = "obj" /\ "accessToken" \in DOMAIN r.fields
                 /\ "userId" \notin DOMAIN r.fields ->
                 \* line 90 has assigned when line 91 raises
                 /\ access_token' = Some(r.fields["accessToken"])
                 /\ raised' = "KeyError"
                 /\ UNCHANGED <<user_id, lastLogin>>
            [] OTHER ->
                 /\ access_token' = Some(r.fields["accessToken"])
                 /\ user_id' = StoredUserId(r.fields)
                 /\ lastLogin' = Some(<<r.fields["accessToken"], r.fields["userId"]>>)
                 /\ raised' = "none"
  /\ TrackSessions


(***************************************************************************)
(* Listing: get_activities / _get_activities_inner.                        *)
(***************************************************************************)
\* the limit argument alone, whatever the default of the instance is
ResolveLimitArgOnly(arg) == arg

\* lines 276-277: the limit a listing uses
ResolveLimit(arg) == IF arg = None THEN default_activity_query_limit ELSE arg

\* line 307: payload["size"]
PageSize(lim) == Min(lim, ACTIVITY_PAGINATION_LIMIT)

\* num_pages rounded down instead of up
NumPagesFloor(total, lim) == total \div lim

\* line 310: num_pages = math.ceil(total_activities / limit)
NumPages(total, lim) == Ceil(total, lim)

\* a page put in front of the pages collected so far
ExtendInFront(list, dataList) == dataList \o list

\* line 323: datalist.extend(res["data"]["dataList"])
Extend(list, dataList) == list \o dataList

\* a listing request: the probe (lines 291-296) or a page (lines 314-319),
\* with the Accesstoken header of line 283 and its timeout argument
ListRequest(kind, pageNumber, sz, outcome, dataList) ==
  [kind |-> kind, pageNumber |-> pageNumber, size |-> sz, outcome |-> outcome,
   dataList |-> dataList, token |-> access_token,
   timeout |-> IF kind = "probe"
                 THEN "GET_ACTIVITY_QUERY_TIMEOUT"
                 ELSE "SIMPLE_QUERY_API_TIMEOUT"]

\* a range that starts one short
FirstRetriesLeftShort(mt) == mt - 2

\* line 363: the first value of range(max_tries - 1, -1, -1)
FirstRetriesLeft(mt) == mt - 1

\* a fetch of the last reference of the listing, whatever k is
StartFetchLast(list, k) ==
  /\ max_tries' = MAX_TRIES
  /\ retries_left' = FirstRetriesLeft(MAX_TRIES)
  /\ activity' = list[Len(list)]
  /\ fetchLog' = <<>>
  /\ fetchEnd' = "none"
  /\ fetchResult' = <<>>
  /\ err_msg' = None
  /\ sleeps' = <<>>

\* the first statements of get_raw_activity_data for reference k of the listing
StartFetch(list, k) ==
  /\ max_tries' = MAX_TRIES
  /\ retries_left' = FirstRetriesLeft(MAX_TRIES)
  /\ activity' = list[k]
  /\ fetchLog' = <<>>
  /\ fetchEnd' = "none"
  /\ fetchResult' = <<>>
  /\ err_msg' = None
  /\ sleeps' = <<>>

\* the collection of the previous run kept, with its activities
KeptActivities == [activities EXCEPT !.loaded = TRUE]

\* line 502: self.activities = TrainActivities()
FreshActivities == [loaded |-> TRUE, root |-> <<>>]

\* get_activities returns list: to its caller (line 325), or into
\* _extract_data_inner (lines 498-503)
ListingReturn(list) ==
  /\ listResult' = <<list>>
  /\ raised' = "none"
  /\ CASE op' = "extract_data" ->
            /\ activities' = FreshActivities
            /\ pastListing' = TRUE
            /\ refs' = list
            /\ idx' = 1
            /\ succeeded' = <<>>
            /\ IF list = <<>>
                 THEN /\ pc' = "done"
                      /\ NoFetch
                 ELSE /\ pc' = "attempt"
                      /\ StartFetch(list, 1)
       [] op' = "export_activities" ->
            \* lines 155-161: the loop over the listing starts
            /\ UNCHANGED <<activities, pastListing>>
            /\ refs' = list
            /\ idx' = 1
            /\ succeeded' = <<>>
            /\ NoFetch
            /\ pc' = IF list = <<>> THEN "done" ELSE "export"
       [] OTHER ->
            /\ pc' = "done"
            /\ NoFetch /\ NoExtract /\ UNCHANGED <<activities, pastListing>>

\* a failure that hands back the pages collected so far
ListingRaisePartial(e) ==
  /\ listResult' = <<datalist>>
  /\ raised' = "none"
  /\ pc' = "done"
  /\ NoFetch /\ NoExtract /\ UNCHANGED <<activities, pastListing>>

\* an exception leaves _get_activities_inner, and so the operation
ListingRaise(e) ==
  /\ listResult' = <<>>
  /\ raised' = e
  /\ pc' = "done"
  /\ NoFetch /\ NoExtract /\ UNCHANGED <<activities, pastListing>>

\* lines 271-310 up to the first request, for get_activities(limit=arg) and
\* extract_data(limit=arg)
BeginListing(o, arg) ==
  /\ Idle
  /\ op' = o
  /\ arg_limit' = arg
  /\ stepLog' = <<>>
  /\ listLog' = <<>>
  /\ datalist' = <<>>
  /\ loginLog' = <<>>
  /\ json_file' = None
  /\ UNCHANGED <<authVars, default_activity_query_limit, serverCount, call>>
  /\ LET lim == ResolveLimit(arg) IN
     IF lim = None
       THEN /\ limit' = None
            /\ total_activities' = 0
            /\ size' = 1
            /\ num_pages' = 0
            /\ page_number' = 1
            /\ pc' = "probe"
            /\ listResult' = <<>>
            /\ raised' = "none"
            /\ NoFetch /\ NoExtract /\ UNCHANGED <<activities, pastListing>>
       ELSE /\ limit' = lim
            /\ total_activities' = Val(lim)
            /\ size' = PageSize(Val(lim))
            /\ page_number' = 1
            /\ IF Val(lim) = 0
                 THEN /\ num_pages' = 0
                      /\ ListingRaise("ZeroDivisionError")
                 ELSE /\ num_pages' = NumPages(Val(lim), Val(lim))
                      /\ IF num_pages' = 0
                           THEN ListingReturn(<<>>)
                           ELSE /\ pc' = "pages"
                                /\ listResult' = <<>>
                                /\ raised' = "none"
                                /\ NoFetch /\ NoExtract /\ UNCHANGED <<activities, pastListing>>
  /\ TrackSessions

Limits == {None} \cup {Some(n) : n \in 0..MaxLimit}

GetActivities == \E arg \in Limits : BeginListing("get_activities", arg) /\ NoExport

ExtractData == \E arg \in Limits : BeginListing("extract_data", arg) /\ NoExport

\* lines 285-310: the probe request and what follows it up to the first page
ProbeRequest ==
  /\ pc = "probe"
  /\ \E outcome \in {"ok", "fail", "malformed"} :
       /\ listLog' = Append(listLog,
                       ListRequest("probe", page_number, size, outcome,
                                   HonestSlice(serverCount, 1, 1)))
       /\ stepLog' = <<>>
       /\ UNCHANGED <<authVars, opOutVars, default_activity_query_limit, serverCount,
                      op, arg_limit, datalist, page_number, call, exportVars>>
       /\ CASE outcome = "fail" ->
                 /\ ListingRaise("HTTPError")
                 /\ UNCHANGED <<limit, total_activities, size, num_pages>>
            [] outcome = "malformed" ->
                 /\ ListingRaise("KeyError")
                 /\ UNCHANGED <<limit, total_activities, size, num_pages>>
            [] outcome = "ok" ->
                 /\ limit' = Some(ACTIVITY_PAGINATION_LIMIT)
                 /\ total_activities' = serverCount
                 /\ size' = PageSize(ACTIVITY_PAGINATION_LIMIT)
                 /\ num_pages' = NumPages(serverCount, ACTIVITY_PAGINATION_LIMIT)
                 /\ IF num_pages' = 0
                      THEN ListingReturn(<<>>)
                      ELSE /\ pc' = "pages"
                           /\ listResult' = <<>>
                           /\ raised' = "none"
                           /\ NoFetch /\ NoExtract /\ UNCHANGED <<activities, pastListing>>
  /\ TrackSessions

\* lines 311-325: one turn of the page loop, and the return after the last
PageRequest ==
  /\ pc = "pages"
  /\ page_number <= num_pages
  /\ \E outcome \in {"ok", "fail", "malformed"} :
     \E dataList \in PageAnswers(serverCount, page_number, size) :
       /\ outcome # "ok" => dataList = HonestSlice(serverCount, page_number, size)
       /\ listLog' = Append(listLog,
                       ListRequest("page", page_number, size, outcome, dataList))
       /\ stepLog' = <<>>
       /\ UNCHANGED <<authVars, opOutVars, default_activity_query_limit, serverCount,
                      op, arg_limit, limit, total_activities, size, num_pages, call,
                      exportVars>>
       /\ CASE outcome = "fail" ->
                 /\ ListingRaise("HTTPError")
                 /\ UNCHANGED <<datalist, page_number>>
            [] outcome = "malformed" ->
                 /\ ListingRaise("KeyError")
                 /\ UNCHANGED <<datalist, page_number>>
            [] outcome = "ok" ->
                 /\ datalist' = Extend(datalist, dataList)
                 /\ page_number' = page_number + 1
                 /\ IF page_number = num_pages
                      THEN ListingReturn(datalist')
                      ELSE /\ pc' = "pages"
                           /\ listResult' = <<>>
                           /\ raised' = "none"
                           /\ NoFetch /\ NoExtract /\ UNCHANGED <<activities, pastListing>>
  /\ TrackSessions


(***************************************************************************)
(* Translation: the static methods that turn raw JSON into the models.     *)
(* A call's result is [raises, value]: the exception it raises ("none"     *)
(* when it returns) and the value it returns.                              *)
(***************************************************************************)
Returns(v) == [raises |-> "none", value |-> v]
Raises(e) == [raises |-> e, value |-> <<>>]

\* dict.get(key, default) on a JSON object, a function from its keys
DictGet(item, key, default) == IF key \in DOMAIN item THEN item[key] ELSE default

\* LapType (api_model.py lines 140-141)
BIKE_RIDE == 1
RUNNING == 2

\* ActivityType.RUN_ACTIVITY_TYPES (api_model.py lines 105-110)
RUN_ACTIVITY_TYPES == {101, 100}

\* every sport type has laps
SupportsLapsAlways(sport_type) == TRUE

\* line 467: sport_type not in ActivityType.RUN_ACTIVITY_TYPES, negated
SupportsLaps(sport_type) == sport_type \in RUN_ACTIVITY_TYPES

\* the biking lap-kind taken for the running one
IsBikeRideLapItem(item) == item["type"] = BIKE_RIDE

\* line 472: item["type"] == LapType.RUNNING
IsRunningLapItem(item) == item["type"] = RUNNING

\* Lap(**lap): a raw lap is [lapIndex, valid]; valid says that it holds
\* every field that Lap declares
LapModel(lap) == [lapIndex |-> lap.lapIndex]

\* lines 470-475: the loop over the items of raw_lap_data
RECURSIVE LapsLoop(_, _)
LapsLoop(items, laps) ==
  IF items = <<>>
    THEN Returns(laps)
    ELSE LET item == Head(items) IN
         IF "type" \notin DOMAIN item
           THEN Raises("KeyError")
           ELSE IF IsRunningLapItem(item)
                  THEN IF "lapItemList" \notin DOMAIN item
                         THEN Raises("KeyError")
                         ELSE LET l == item["lapItemList"] IN
                              IF \E k \in 1..Len(l) : ~l[k].valid
                                THEN Raises("ValidationError")
                                ELSE LapsLoop(Tail(items),
                                       laps \o [k \in 1..Len(l) |-> LapModel(l[k])])
                  ELSE LapsLoop(Tail(items), laps)

\* get_laps_data (lines 452-475)
get_laps_data(sport_type, raw_lap_data) ==
  IF ~SupportsLaps(sport_type) THEN Returns(<<>>) ELSE LapsLoop(raw_lap_data, <<>>)

\* the inputs of the translation calls
RawLap(n) == [lapIndex |-> n, valid |-> TRUE]

LapItemLists == { <<>>, <<RawLap(1)>>, <<RawLap(2), RawLap(3)>>,
                  <<[lapIndex |-> 4, valid |-> FALSE]>> }

\* a raw lap item is a JSON object with any of the keys type, lapItemList
LapItems ==
  { [k \in {"lapItemList"} |-> l] : l \in {<<RawLap(1)>>} }
  \cup { [k \in {"type"} |-> t] : t \in {BIKE_RIDE, RUNNING} }
  \cup { [k \in {"type", "lapItemList"} |->
            IF k = "type" THEN t ELSE l] : t \in {BIKE_RIDE, RUNNING, 3},
                                           l \in LapItemLists }

\* mixed values under one key: "type" holds a number, "lapItemList" a list
RawLapLists == UNION { [1..n -> LapItems] : n \in 0..MaxLapItems }

SportTypes == {100, 101, 104, 200, 201, 204, 904, 999}

\* the fields of Frequencies (model.py lines 136-140)
FrequencyFields == {"cadence", "distance", "heart", "heartLevel", "timestamp"}

\* Frequencies(): every list starts empty
NewFrequencies == [f \in FrequencyFields |-> <<>>]

\* an append that is skipped when the item lacks the key
AppendFieldIfPresent(list, item, key) ==
  IF key \in DOMAIN item THEN Append(list, item[key]) ELSE list

\* lines 432-436: freq.<key>.append(item.get("<key>", 0))
AppendField(list, item, key) == Append(list, DictGet(item, key, 0))

\* lines 431-436: the loop over the items of data
RECURSIVE FrequenciesLoop(_, _)
FrequenciesLoop(data, freq) ==
  IF data = <<>>
    THEN freq
    ELSE FrequenciesLoop(Tail(data),
           [f \in FrequencyFields |-> AppendField(freq[f], Head(data), f)])

\* get_activity_data (lines 427-437)
get_activity_data(data) == Returns(FrequenciesLoop(data, NewFrequencies))

\* the value a sample item holds under a key, when it has the key
SampleValue(key) ==
  CASE key = "cadence" -> 1
    [] key = "distance" -> 2
    [] key = "heart" -> 3
    [] key = "heartLevel" -> 4
    [] OTHER -> 5

\* a sample item is a JSON object with any subset of the five keys
SampleItems ==
  { [k \in keys |-> SampleValue(k)] : keys \in SUBSET FrequencyFields }
  \cup { [k \in FrequencyFields |-> 10 + SampleValue(k)] }

RawSampleLists == UNION { [1..n -> SampleItems] : n \in 0..MaxSamples }

\* A datetime is [seconds, microsecond, utcoffset]: the wall clock reading
\* in whole seconds since 1970-01-01T00:00:00 on that clock, the microsecond
\* field, and the offset of the wall clock from UTC in seconds.
\* datetime.fromtimestamp(0, UTC) (model.py line 102)
EpochUTC == [seconds |-> 0, microsecond |-> 0, utcoffset |-> 0]

\* a division that drops the centiseconds
TimedeltaWholeSeconds(value) == [seconds |-> value \div 100, microseconds |-> 0]

\* timedelta(seconds=value / 100) (model.py line 102), normalised to seconds
\* and microseconds.  value / 100 is a double and timedelta rounds it to the
\* nearest microsecond; for value < 100 * 2^33 the double is within half a
\* microsecond of the quotient, so that the result is value * 10^4
\* microseconds.
TimedeltaSeconds(value) ==
  [seconds |-> value \div 100, microseconds |-> (value % 100) * 10000]

\* datetime + timedelta
DatetimePlus(dt, td) ==
  LET us == dt.microsecond + td.microseconds IN
  [seconds |-> dt.seconds + td.seconds + (us \div 1000000),
   microsecond |-> us % 1000000,
   utcoffset |-> dt.utcoffset]

\* The zone of the system: UTC, a zone west of it, and a zone that sets its
\* clock back by an hour one second after the epoch.
Zones == {"UTC", "west", "fallback"}

\* the offset of the zone's wall clock at the instant utc (seconds)
ZoneOffset(zone, utc) ==
  CASE zone = "UTC" -> 0
    [] zone = "west" -> -18000
    [] OTHER -> IF utc < 1 THEN 7200 ELSE 3600

\* datetime.astimezone() (model.py line 102): the same instant on the wall
\* clock of the system's zone
Astimezone(dt, zone) ==
  LET utc == dt.seconds - dt.utcoffset
      off == ZoneOffset(zone, utc)
  IN  [seconds |-> utc + off, microsecond |-> dt.microsecond, utcoffset |-> off]

\* convert_timestamp_to_datetime (model.py lines 87-102 and 184-188)
convert_timestamp_to_datetime(value, zone) ==
  Astimezone(DatetimePlus(EpochUTC, TimedeltaSeconds(value)), zone)

\* serialize_dt (model.py lines 104-115 and 190-193): dt.isoformat(), the
\* text YYYY-MM-DDTHH:MM:SS[.ffffff]+HH:MM[:SS] given by its parts; the
\* fraction is left out when the microsecond field is 0
serialize_dt(dt) ==
  [date_time |-> dt.seconds,
   fraction |-> IF dt.microsecond = 0 THEN <<>> ELSE <<dt.microsecond>>,
   offset |-> dt.utcoffset]

\* Summary(**data) (model.py lines 20-115): a raw summary is [name,
\* startTimestamp, endTimestamp, valid]; valid says that it holds every
\* field that Summary declares, with a value of the declared type
SummaryModel(data, zone) ==
  IF ~data.valid
    THEN Raises("ValidationError")
    ELSE Returns([name |-> data.name,
                  startTimestamp |-> convert_timestamp_to_datetime(data.startTimestamp, zone),
                  endTimestamp |-> convert_timestamp_to_datetime(data.endTimestamp, zone)])

\* get_summary_data (lines 439-450)
get_summary_data(data, zone) == SummaryModel(data, zone)

SummaryTimestamps == {0, 1, 100, MaxCenti}

RawSummaries ==
  { [name |-> 1, startTimestamp |-> st, endTimestamp |-> en, valid |-> v] :
      st \in SummaryTimestamps, en \in SummaryTimestamps, v \in BOOLEAN }

\* the translation functions are static and keep nothing between calls:
\* the first call of a client stands for every call
FirstCall == Idle /\ call = NoCall

\* a call of get_laps_data
GetLapsDataCall ==
  /\ FirstCall
  /\ \E sport_type \in SportTypes, raw_lap_data \in RawLapLists :
       call' = [fn |-> "get_laps_data", args |-> <<sport_type, raw_lap_data>>,
                result |-> get_laps_data(sport_type, raw_lap_data)]
  /\ UNCHANGED <<persistVars, ctlVars, listVars, fetchVars, extractVars, stepLog,
                 exportVars, opOutVars>>

\* a call of get_activity_data
GetActivityDataCall ==
  /\ FirstCall
  /\ \E data \in RawSampleLists :
       call' = [fn |-> "get_activity_data", args |-> <<data>>,
                result |-> get_activity_data(data)]
  /\ UNCHANGED <<persistVars, ctlVars, listVars, fetchVars, extractVars, stepLog,
                 exportVars, opOutVars>>

\* a call of get_summary_data on a system of some zone
GetSummaryDataCall ==
  /\ FirstCall
  /\ \E data \in RawSummaries, zone \in Zones :
       call' = [fn |-> "get_summary_data", args |-> <<data, zone>>,
                result |-> get_summary_data(data, zone)]
  /\ UNCHANGED <<persistVars, ctlVars, listVars, fetchVars, extractVars, stepLog,
                 exportVars, opOutVars>>

\* a vendor timestamp decoded by the field validator and serialized by the
\* field serializer, on a system of some zone
SerializeTimestampCall ==
  /\ FirstCall
  /\ \E value \in 0..MaxCenti, zone \in Zones :
       call' = [fn |-> "serialize_dt", args |-> <<value, zone>>,
                result |-> Returns(serialize_dt(
                                     convert_timestamp_to_datetime(value, zone)))]
  /\ UNCHANGED <<persistVars, ctlVars, listVars, fetchVars, extractVars, stepLog,
                 exportVars, opOutVars>>


(***************************************************************************)
(* Detail fetch: get_raw_activity_data, and the translation that follows   *)
(* it in _extract_data_inner.                                              *)
(***************************************************************************)
\* A detail response body.  data: the "data" key is absent, null or an
\* object; summary: data.summary is absent, null, an object that Summary
\* rejects ("invalid") or one it accepts ("ok"); frequencyList, lapList:
\* the key is absent or holds a list; name: summary.name.
Payload(d, s, f, l, n) ==
  [data |-> d, summary |-> s, frequencyList |-> f, lapList |-> l, name |-> n]

DetailPayloads(a) ==
  { Payload("absent", "absent", "absent", "absent", a.labelId),
    Payload("null", "absent", "absent", "absent", a.labelId),
    Payload("obj", "absent", "ok", "ok", a.labelId),
    Payload("obj", "null", "ok", "ok", a.labelId),
    Payload("obj", "invalid", "ok", "ok", a.labelId),
    Payload("obj", "ok", "absent", "ok", a.labelId),
    Payload("obj", "ok", "ok", "absent", a.labelId),
    Payload("obj", "ok", "ok", "ok", a.labelId) }

\* what one detail request may yield: an exception of the transport
\* (session.post or raise_for_status), or a response body
AttemptOutcomes(a) ==
  { [exception |-> TRUE, payload |-> <<>>] }
  \cup { [exception |-> FALSE, payload |-> <<p>>] : p \in DetailPayloads(a) }

\* valid_raw_activity_data (line 338):
\*   resp_json.get("data", {}).get("summary") is not None
\* "data": null makes the first get return None, and None.get raises
ValidRawActivityData(resp_json) ==
  CASE resp_json.data = "absent" -> "False"
    [] resp_json.data = "null" -> "AttributeError"
    [] OTHER -> IF resp_json.summary \in {"absent", "null"} THEN "False" ELSE "True"

\* a range that ends one late
LoopContinuesLate(rl) == rl >= 0

\* line 363: the loop takes another turn after the one with retries_left = rl
LoopContinues(rl) == rl > 0

\* a sleep after every failed attempt, the last one too
SleepsAfterEveryFailure(rl) == TRUE

\* line 380: if retries_left
SleepsBeforeRetry(rl) == rl # 0

\* lines 364-382: what one attempt leads to
AttemptVerdict(o) ==
  IF o.exception
    THEN "retry"
    ELSE CASE ValidRawActivityData(o.payload[1]) = "True" -> "return"
           [] ValidRawActivityData(o.payload[1]) = "False" -> "retry"
           [] OTHER -> "AttributeError"

\* get_laps_data (lines 467-475) on a lapList that holds running lap items
GetLapsData(sport_type, lapList) ==
  IF get_laps_data(sport_type, <<[k \in {"type", "lapItemList"} |->
                                   IF k = "type" THEN RUNNING ELSE <<RawLap(1)>>]>>).value
       = <<>>
    THEN "empty"
    ELSE "laps"

\* lines 520-533: the models built from a fetched payload, or the exception
\* that building them raises
Translate(sport_type, p) ==
  CASE p.data = "absent" -> [raises |-> "KeyError", value |-> <<>>]
    [] p.data = "null" -> [raises |-> "TypeError", value |-> <<>>]
    [] p.data = "obj" /\ p.summary = "absent" -> [raises |-> "KeyError", value |-> <<>>]
    [] p.data = "obj" /\ p.summary = "null" -> [raises |-> "TypeError", value |-> <<>>]
    [] p.data = "obj" /\ p.summary = "invalid" ->
         [raises |-> "ValidationError", value |-> <<>>]
    [] p.data = "obj" /\ p.summary = "ok" /\ p.frequencyList = "absent" ->
         [raises |-> "KeyError", value |-> <<>>]
    [] p.data = "obj" /\ p.summary = "ok" /\ p.frequencyList = "ok"
         /\ p.lapList = "absent" -> [raises |-> "KeyError", value |-> <<>>]
    [] OTHER ->
         [raises |-> "none",
          value |-> << [summary |-> p.name, data |-> "frequencies",
                        laps |-> GetLapsData(sport_type, p.lapList)] >>]

\* a handler that forgets RuntimeError
CaughtByFetchHandlerNarrow == {"RequestException"}

\* lines 512 and 527: the exceptions _extract_data_inner catches
CaughtByFetchHandler == {"RequestException", "RuntimeError"}
CaughtByBuildHandler == {"KeyError"}

\* an activity put in front of the collection
AddActivityInFront(root, a) == <<a>> \o root

\* TrainActivities.add_activity (model.py line 266)
AddActivity(root, a) == Append(root, a)


\* the payload has everything the models need
Complete(p) ==
  p.data = "obj" /\ p.summary = "ok" /\ p.frequencyList = "ok" /\ p.lapList = "ok"

\* the detail request of lines 411-423, with its Accesstoken header and its
\* timeout argument
DetailRequest(a, o) ==
  [labelId |-> a.labelId, sportType |-> a.sportType, exception |-> o.exception,
   payload |-> o.payload, token |-> access_token,
   timeout |-> "RAW_ACTIVITY_QUERY_API_TIMEOUT"]

\* lines 383-387: the message names the endpoint and a number of attempts
ErrMsg == [endpoint |-> "ACTIVITY_DETAILS_URL", attempts |-> MAX_TRIES]

\* err_msg once get_raw_activity_data has ended by end
ErrMsgOf(end) == IF end = "RuntimeError" THEN Some(ErrMsg) ELSE None

\* get_raw_activity_data ends (end: "returned" with result, or the name of
\* the exception it raises) after logging lg.  In extract_data the rest of
\* the loop body follows (lines 512-533), and the next turn of the loop.
FetchEnds(end, result, lg, log) ==
  /\ fetchEnd' = end
  /\ fetchResult' = result
  /\ IF op = "get_raw_activity_data"
       THEN /\ pc' = "done"
            /\ raised' = IF end = "returned" THEN "none" ELSE end
            /\ stepLog' = lg
            /\ fetchLog' = log
            /\ err_msg' = ErrMsgOf(end)
            /\ UNCHANGED <<activities, pastListing, extractVars, max_tries, retries_left, activity>>
       ELSE LET sport_type == refs[idx].sportType
                built == IF end = "returned"
                           THEN Translate(sport_type, result[1])
                           ELSE [raises |-> end, value |-> <<>>]
                caught == IF end = "returned"
                            THEN built.raises \in CaughtByBuildHandler
                            ELSE built.raises \in CaughtByFetchHandler
            IN  IF built.raises # "none" /\ ~caught
                  THEN /\ pc' = "done"
                       /\ raised' = built.raises
                       /\ stepLog' = lg
                       /\ fetchLog' = log
                       /\ err_msg' = ErrMsgOf(end)
                       /\ UNCHANGED <<activities, pastListing, extractVars, max_tries,
                                      retries_left, activity>>
                  ELSE /\ UNCHANGED pastListing
                       /\ activities' =
                            IF built.raises = "none"
                              THEN [activities EXCEPT
                                      !.root = AddActivity(@, built.value[1])]
                              ELSE activities
                       /\ stepLog' = IF built.raises = "none"
                                       THEN lg
                                       ELSE lg \o <<"exception:processing">>
                       /\ succeeded' =
                            Append(succeeded,
                                   end = "returned" /\ Complete(result[1]))
                       /\ refs' = refs
                       /\ idx' = idx + 1
                       /\ raised' = "none"
                       /\ fetchLog' = <<>>
                       /\ err_msg' = None
                       /\ IF idx + 1 > Len(refs)
                            THEN /\ pc' = "done"
                                 /\ UNCHANGED <<max_tries, retries_left, activity>>
                            ELSE /\ pc' = "attempt"
                                 /\ max_tries' = MAX_TRIES
                                 /\ retries_left' = FirstRetriesLeft(MAX_TRIES)
                                 /\ activity' = refs[idx + 1]

\* a loop turn that logs exceptions only
AttemptLogExceptionsOnly(o, verdict) ==
  IF o.exception THEN <<"exception:download">> ELSE <<>>

\* lines 369-378: the LOGGER calls of a turn whose attempt failed:
\* LOGGER.exception in the except branch, LOGGER.error for a payload that is
\* not valid
AttemptLog(o, verdict) ==
  IF o.exception
    THEN <<"exception:download">>
    ELSE IF verdict = "retry" THEN <<"error:malformed">> ELSE <<>>

\* lines 363-388: one turn of the retry loop, with what follows the loop
\* when this turn is its last
DetailAttempt ==
  /\ pc = "attempt"
  /\ \E o \in AttemptOutcomes(activity) :
       LET log == Append(fetchLog, DetailRequest(activity, o))
           verdict == AttemptVerdict(o)
           slept == verdict = "retry" /\ SleepsBeforeRetry(retries_left)
           lg == AttemptLog(o, verdict)
                 \o (IF slept THEN <<"warning:retry", "sleep">> ELSE <<>>)
           slept_so_far == IF slept
                             THEN Append(sleeps, WAIT_BETWEEN_RETRIES)
                             ELSE sleeps
       IN  /\ UNCHANGED <<authVars, opOutVars, default_activity_query_limit,
                          serverCount, op, listVars, call, exportVars>>
           /\ IF verdict = "retry" /\ LoopContinues(retries_left)
                THEN /\ retries_left' = retries_left - 1
                     /\ fetchLog' = log
                     /\ fetchEnd' = "none"
                     /\ fetchResult' = <<>>
                     /\ err_msg' = None
                     /\ sleeps' = slept_so_far
                     /\ stepLog' = lg
                     /\ UNCHANGED <<activities, pastListing, extractVars, max_tries, activity,
                                    pc, raised>>
                ELSE /\ FetchEnds(CASE verdict = "retry" -> "RuntimeError"
                                      [] verdict = "return" -> "returned"
                                      [] OTHER -> verdict,
                                    IF verdict = "return" THEN o.payload ELSE <<>>,
                                    lg, log)
                     \* the next fetch has not slept
                     /\ sleeps' = IF pc' = "attempt" THEN <<>> ELSE slept_so_far
  /\ TrackSessions

\* a direct call of get_raw_activity_data(session, activity, max_tries=mt)
GetRawActivityData ==
  /\ Idle
  /\ \E mt \in 0..MaxTriesArg :
       /\ op' = "get_raw_activity_data"
       /\ NoListing
       /\ NoExtract
       /\ stepLog' = <<>>
       /\ loginLog' = <<>>
       /\ json_file' = None
       /\ UNCHANGED <<persistVars, call>>
       /\ NoExport
       /\ activity' = ActivityRef(1)
       /\ max_tries' = mt
       /\ fetchLog' = <<>>
       /\ fetchResult' = <<>>
       /\ sleeps' = <<>>
       /\ IF mt <= 0
            THEN /\ retries_left' = 0
                 /\ fetchEnd' = "RuntimeError"
                 /\ err_msg' = ErrMsgOf("RuntimeError")
                 /\ raised' = "RuntimeError"
                 /\ pc' = "done"
            ELSE /\ retries_left' = FirstRetriesLeft(mt)
                 /\ fetchEnd' = "none"
                 /\ err_msg' = None
                 /\ raised' = "none"
                 /\ pc' = "attempt"
  /\ TrackSessions


(***************************************************************************)
(* Export: export_activities / _export_activities_inner.                   *)
(***************************************************************************)
\* ActivityFileType (api_model.py lines 27-31): CSV 0, GPX 1, KML 2, TCX 3,
\* FIT 4
FileTypes == 0..4

\* ActivityFileType.POSITIONAL_DATA_FILE_TYPE (api_model.py lines 33-38)
POSITIONAL_DATA_FILE_TYPE == {1, 2}

\* the values of ActivityType (api_model.py lines 56-73)
ActivityTypes ==
  {100, 101, 104, 200, 201, 204, 400, 500, 501, 503, 800, 801, 802, 900, 901, 903,
   904, 10001}

\* the set built with BIKE_ACTIVITY_TYPES, which holds INDOOR_BIKE
PositionalDataWithAllBikes ==
  {100, 104, 900, 10001} \cup {802, 801} \cup {500, 503, 501} \cup {201, 200, 204}

\* ActivityType.ACTIVITY_TYPE_SUPPORTS_POSITIONAL_DATA (api_model.py lines
\* 112-122)
ACTIVITY_TYPE_SUPPORTS_POSITIONAL_DATA ==
  {100, 104, 900, 10001} \cup {802, 801} \cup {500, 503, 501} \cup {200, 204}

\* every file type is exported for every sport type
SupportsExportAlways(st, ft) == TRUE

\* ActivityType.supports_export (api_model.py lines 75-81)
supports_export(st, ft) ==
  IF ft \in POSITIONAL_DATA_FILE_TYPE
    THEN st \in ACTIVITY_TYPE_SUPPORTS_POSITIONAL_DATA
    ELSE TRUE

\* a call of supports_export on a member of ActivityType
SupportsExportCall ==
  /\ FirstCall
  /\ \E st \in ActivityTypes, ft \in FileTypes :
       call' = [fn |-> "supports_export", args |-> <<st, ft>>,
                result |-> Returns(supports_export(st, ft))]
  /\ UNCHANGED <<persistVars, ctlVars, listVars, fetchVars, extractVars, stepLog,
                 exportVars, opOutVars>>

\* a request of the export: the download-handle request (lines 189-201) or
\* the stream request (lines 221 and 230), and how it went.  The handle
\* request carries the Accesstoken header of line 159, the stream request no
\* header; neither call passes a timeout argument, and requests then waits
\* without a limit.
DownloadRequest(kind, a, ft, outcome) ==
  [kind |-> kind, labelId |-> a.labelId, sportType |-> a.sportType, fileType |-> ft,
   outcome |-> outcome, token |-> IF kind = "handle" THEN access_token ELSE None,
   timeout |-> "None"]

\* the download-handle request fails (session.post or raise_for_status
\* raises), or is answered by a body without "data", by a body whose data
\* has no fileUrl, or by a body with data.fileUrl
HandleOutcomes == {"fail", "nodata", "nourl", "ok"}

\* the stream request raises, or reading the stream raises, or the bytes
\* arrive
StreamOutcomes == {"exception", "readfail", "ok"}

\* the loop body ends (by continue or at its end) after logging lg and
\* issuing reqs, and the loop takes its next turn (line 161)
ExportContinue(lg, reqs, wrote) ==
  /\ raised' = "none"
  /\ stepLog' = lg
  /\ requests' = reqs
  /\ files' = IF wrote THEN files \cup {refs[idx].labelId} ELSE files
  /\ idx' = idx + 1
  /\ pc' = IF idx + 1 > Len(refs) THEN "done" ELSE "export"

\* an exception leaves the loop body, and so export_activities
ExportRaise(e, lg, reqs) ==
  /\ raised' = e
  /\ stepLog' = lg
  /\ requests' = reqs
  /\ files' = files
  /\ idx' = idx
  /\ pc' = "done"

\* a check that takes a sport type it does not know for one without export
SkippedWhenNotKnown(known, st, ft) == ~known \/ ~supports_export(st, ft)

\* lines 166-186: the capability check is the else branch of the try, which
\* runs only when ActivityType(sport_type_raw) has succeeded
SkippedByCapabilityCheck(known, st, ft) == known /\ ~supports_export(st, ft)

\* lines 161-230: one turn of the loop over the listed activities
ExportActivity ==
  /\ pc = "export"
  /\ LET a == refs[idx]
         ft == Val(file_type)
         known == a.sportType \in ActivityTypes
         bound == IF known THEN Some(a.sportType) ELSE exp_sport_type
         lg0 == IF known THEN <<>> ELSE <<"debug:unknown-sport-type">>
     IN  /\ exp_sport_type' = bound
         /\ UNCHANGED <<persistVars, op, listVars, fetchVars, refs, succeeded, call,
                        file_type, opOutVars>>
         /\ IF SkippedByCapabilityCheck(known, a.sportType, ft)
              THEN ExportContinue(<<"debug:unsupported">>, <<>>, FALSE)
              ELSE \E h \in HandleOutcomes :
                     LET hr == DownloadRequest("handle", a, ft, h) IN
                     CASE h = "fail" -> ExportRaise("HTTPError", lg0, <<hr>>)
                       [] h = "nodata" ->
                            \* line 215 reads sport_type
                            IF bound = None
                              THEN ExportRaise("UnboundLocalError", lg0, <<hr>>)
                              ELSE ExportContinue(lg0 \o <<"info:no-download">>,
                                                  <<hr>>, FALSE)
                       [] h = "nourl" -> ExportRaise("KeyError", lg0, <<hr>>)
                       [] h = "ok" ->
                            \E o \in StreamOutcomes :
                              LET sr == DownloadRequest("stream", a, ft, o) IN
                              CASE o = "exception" ->
                                     ExportRaise("ConnectionError", lg0, <<hr, sr>>)
                                [] o = "readfail" ->
                                     ExportRaise("ProtocolError",
                                                 lg0 \o <<"debug:downloading">>,
                                                 <<hr, sr>>)
                                [] o = "ok" ->
                                     ExportContinue(lg0 \o <<"debug:downloading">>,
                                                    <<hr, sr>>, TRUE)
  /\ TrackSessions

\* export_activities(file_type, output_directory, limit=arg), into a
\* directory that holds no file
ExportActivities ==
  \E ft \in FileTypes, arg \in Limits :
    /\ BeginListing("export_activities", arg)
    /\ file_type' = Some(ft)
    /\ exp_sport_type' = None
    /\ files' = {}
    /\ requests' = <<>>

(***************************************************************************)
(* Output: to_json.                                                        *)
(***************************************************************************)
\* a test that takes a collection without activities for no collection
ToJsonWritesNonEmpty(acts) == acts.loaded /\ acts.root # <<>>

\* line 544: if self.activities is None, negated
ToJsonWrites(acts) == acts.loaded

\* line 553: self.activities.model_dump(), the list of the activities
ModelDump(acts) == acts.root

\* to_json(filename) (lines 535-553), with a filename that can be written
ToJson ==
  /\ Idle
  /\ op' = "to_json"
  /\ pc' = "done"
  /\ raised' = "none"
  /\ NoListing /\ NoFetch /\ NoExtract /\ NoExport
  /\ loginLog' = <<>>
  /\ UNCHANGED <<persistVars, call>>
  /\ IF ToJsonWrites(activities)
       THEN /\ json_file' = Some(ModelDump(activities))
            /\ stepLog' = <<>>
       ELSE /\ json_file' = None
            /\ stepLog' = <<"debug:no-activities">>
  /\ TrackSessions

\* a client that lists and extracts
Next ==
  \/ GetActivities
  \/ ExtractData
  \/ ProbeRequest
  \/ PageRequest
  \/ DetailAttempt

Spec == Init /\ [][Next]_vars

\* a client that calls get_raw_activity_data itself, with any max_tries
NextFetch ==
  \/ GetRawActivityData
  \/ DetailAttempt

SpecFetch == Init /\ [][NextFetch]_vars

\* a client that exports
NextExport ==
  \/ ExportActivities
  \/ ProbeRequest
  \/ PageRequest
  \/ ExportActivity

SpecExport == Init /\ [][NextExport]_vars

\* a client that calls the translation functions itself, on any input
InitTranslate ==
  /\ Init
  /\ default_activity_query_limit = None
  /\ serverCount = 0

NextTranslate ==
  \/ GetLapsDataCall
  \/ GetActivityDataCall
  \/ GetSummaryDataCall
  \/ SerializeTimestampCall
  \/ SupportsExportCall

SpecTranslate == InitTranslate /\ [][NextTranslate]_vars

\* a client that lists, extracts, exports and writes, against a small account
MaxClientTotal == 2

InitClient ==
  /\ Init
  /\ serverCount <= MaxClientTotal

NextClient ==
  \/ GetActivities
  \/ ExtractData
  \/ ExportActivities
  \/ ProbeRequest
  \/ PageRequest
  \/ DetailAttempt
  \/ ExportActivity
  \/ ToJson

SpecClient == InitClient /\ [][NextClient]_vars

\* a client that logs in and lists, against a small account
NextLogin ==
  \/ Login
  \/ GetActivities
  \/ ProbeRequest
  \/ PageRequest

SpecLogin == InitClient /\ [][NextLogin]_vars


(***************************************************************************)
(* Properties.                                                             *)
(***************************************************************************)
Range(s) == {s[k] : k \in 1..Len(s)}

PageRequests == SelectSeq(listLog, LAMBDA r : r.kind = "page")
ProbeRequests == SelectSeq(listLog, LAMBDA r : r.kind = "probe")

\* the listing has returned to its caller
ListingReturned == listResult # <<>>

\* every page answer of the listing was the page the server holds
HonestListing ==
  \A k \in 1..Len(listLog) :
    listLog[k].dataList =
      HonestSlice(serverCount, listLog[k].pageNumber, listLog[k].size)

\* C1: a listing without limit (argument None, default None) whose requests
\* all succeed issues one probe (size 1, pageNumber 1), then exactly
\* ceil(total / P) page requests numbered 1..ceil(total / P), each of size P,
\* total being data.count; an honest server's total items are returned; with
\* total = 0 there is no page request and the result is empty; and
\* ceil(205 / 100) is 3.
C1_NoLimitPaging ==
  /\ NumPages(205, 100) = 3
  /\ (ListingReturned /\ arg_limit = None /\ default_activity_query_limit = None)
       => LET n == Ceil(serverCount, ACTIVITY_PAGINATION_LIMIT) IN
          /\ Len(listLog) = 1 + n
          /\ listLog[1].kind = "probe"
          /\ listLog[1].size = 1
          /\ listLog[1].pageNumber = 1
          /\ total_activities = serverCount
          /\ \A k \in 1..n :
               /\ listLog[k + 1].kind = "page"
               /\ listLog[k + 1].pageNumber = k
               /\ listLog[k + 1].size = ACTIVITY_PAGINATION_LIMIT
          /\ HonestListing =>
               listResult[1] = [k \in 1..serverCount |-> ActivityRef(k)]
          /\ serverCount = 0 => (Len(listLog) = 1 /\ listResult[1] = <<>>)

\* C1 witness: a listing without limit of more than two full pages has
\* returned after three page requests
C1_Witness ==
  /\ op = "get_activities"
  /\ pc = "done"
  /\ ListingReturned
  /\ arg_limit = None
  /\ default_activity_query_limit = None
  /\ serverCount = 2 * ACTIVITY_PAGINATION_LIMIT + 1
  /\ Len(PageRequests) = 3
  /\ Len(listResult[1]) = serverCount

\* C2: the list get_activities returns is the concatenation of the dataList
\* of its page responses, in ascending page number and in the server's
\* order inside each page, nothing dropped, reordered or de-duplicated; the
\* item of the probe response is not part of it.
C2_ResultIsConcatenation ==
  ListingReturned =>
    /\ listResult[1] = Flatten([k \in 1..Len(PageRequests) |-> PageRequests[k].dataList])
    /\ \A k \in 1..Len(PageRequests) : PageRequests[k].pageNumber = k

\* C2 witness: a returned listing that holds an item twice, out of order,
\* after a probe that returned an item
C2_Witness ==
  /\ ListingReturned
  /\ Len(ProbeRequests) = 1
  /\ ProbeRequests[1].dataList # <<>>
  /\ \E i, j \in 1..Len(listResult[1]) :
       /\ i + 1 < j
       /\ listResult[1][i] = listResult[1][j]
       /\ listResult[1][i + 1].labelId > listResult[1][j].labelId

\* C3 as claimed: with a limit L >= 1 given there is no probe and the page
\* requests together ask for L activities, so that a server holding at
\* least L activities yields L of them, also for L above the pagination
\* limit.
C3_LimitIsTotalFetched ==
  (ListingReturned /\ arg_limit # None /\ Val(arg_limit) >= 1)
    => /\ ProbeRequests = <<>>
       /\ SumSeq([k \in 1..Len(PageRequests) |-> PageRequests[k].size])
            = Val(arg_limit)
       /\ (HonestListing /\ serverCount >= Val(arg_limit))
            => Len(listResult[1]) = Val(arg_limit)

\* C4: a probe or page request that does not succeed is the last request
\* of the listing; get_activities raises a transport error and returns
\* nothing, not even the pages already collected.
C4_FailedRequestEndsListing ==
  \A k \in 1..Len(listLog) :
    listLog[k].outcome = "fail" =>
      /\ k = Len(listLog)
      /\ pc = "done"
      /\ raised = "HTTPError"
      /\ listResult = <<>>
      /\ refs = <<>>

\* C4 witness: a page request failed after a page had been collected
C4_Witness ==
  /\ Len(listLog) >= 2
  /\ listLog[Len(listLog)].kind = "page"
  /\ listLog[Len(listLog)].outcome = "fail"
  /\ datalist # <<>>
  /\ raised = "HTTPError"

\* a detail response body that holds a data object with a non-null summary
HasSummary(r) ==
  /\ ~r.exception
  /\ r.payload[1].data = "obj"
  /\ r.payload[1].summary \notin {"absent", "null"}

C7_InvalidPayloadRetried ==
  /\ fetchEnd \in {"none", "returned", "RuntimeError"}
  /\ \A k \in 1..Len(fetchLog) :
       ~fetchLog[k].exception =>
         IF HasSummary(fetchLog[k])
           THEN fetchEnd = "returned" /\ k = Len(fetchLog)
           ELSE k < Len(fetchLog) \/ pc = "attempt" \/ fetchEnd = "RuntimeError"

C9_TranslationFailureSkipsActivity ==
  (op = "extract_data" /\ ListingReturned /\ fetchEnd = "returned"
     /\ ~Complete(fetchResult[1]))
    => raised = "none"

\* the activity the models hold for a listed reference
ExpectedActivity(ref) ==
  [summary |-> ref.labelId, data |-> "frequencies",
   laps |-> IF ref.sportType \in {100, 101} THEN "laps" ELSE "empty"]

RECURSIVE ExpectedCollection(_, _)
ExpectedCollection(list, flags) ==
  IF flags = <<>>
    THEN <<>>
    ELSE IF Head(flags)
           THEN <<ExpectedActivity(Head(list))>> \o ExpectedCollection(Tail(list), Tail(flags))
           ELSE ExpectedCollection(Tail(list), Tail(flags))

IsPrefix(s, t) == Len(s) <= Len(t) /\ SubSeq(t, 1, Len(s)) = s

\* C10: throughout an extraction run the collection holds the translated
\* activities of exactly the processed references whose fetch and
\* translation both succeeded, in listing order, and only grows at its end.
C10_CollectionInv ==
  (op = "extract_data" /\ ListingReturned) =>
    /\ activities.loaded
    /\ refs = listResult[1]
    /\ Len(succeeded) <= Len(refs)
    /\ activities.root = ExpectedCollection(refs, succeeded)

\* C10: at every point of an extraction run the collection equals the
\* translated activities of the processed references that succeeded
\* (C10_CollectionInv), and each step of the run leaves it as it is or
\* appends to it.
C10_CollectionIsProcessedSuccesses ==
  /\ []C10_CollectionInv
  /\ [][ (op = "extract_data" /\ pc = "attempt")
         => IsPrefix(activities.root, activities'.root) ]_vars

\* C10 witness: a finished run that added the first and the third
\* reference and skipped the second
C10_Witness ==
  /\ op = "extract_data"
  /\ pc = "done"
  /\ raised = "none"
  /\ succeeded = <<TRUE, FALSE, TRUE>>
  /\ Len(activities.root) = 2
  /\ activities.root[2].summary = 3

\* C11 as claimed: an extraction run never stops short of its terminal
\* state, and there every listed reference has been processed exactly once,
\* in listing order, with at most 3 detail requests for each (so at most
\* 3 * N requests for N references).
C11_RunProcessesEveryReference ==
  (op = "extract_data" /\ ListingReturned) =>
    /\ pc = "done" \/ ENABLED DetailAttempt
    /\ Len(fetchLog) <= 3
    /\ pc = "attempt" => (idx = Len(succeeded) + 1 /\ activity = refs[idx])
    /\ pc = "done" => Len(succeeded) = Len(refs)

\* the laps that the lapItemList of a raw item holds
LapsOfItem(item) == [k \in 1..Len(item["lapItemList"]) |-> [lapIndex |-> item["lapItemList"][k].lapIndex]]

\* C12: for every sport type outside the lap-supporting set (the running
\* types 100 and 101) get_laps_data returns the empty list and raises
\* nothing, whatever the raw lap data is: also when it holds running lap
\* items, and when its items lack the type or the lapItemList key.
C12_NoLapsOutsideSupportingSet ==
  (call.fn = "get_laps_data" /\ call.args[1] \notin {100, 101})
    => call.result = [raises |-> "none", value |-> <<>>]

\* C12 witness: yoga with a running lap item that holds laps and an item
\* without a type has returned no laps
C12_Witness ==
  /\ call.fn = "get_laps_data"
  /\ call.args[1] = 904
  /\ Len(call.args[2]) = 2
  /\ DOMAIN call.args[2][1] = {"type", "lapItemList"}
  /\ call.args[2][1]["type"] = 2
  /\ call.args[2][1]["lapItemList"] # <<>>
  /\ "type" \notin DOMAIN call.args[2][2]
  /\ call.result.raises = "none"
  /\ call.result.value = <<>>

\* C13 as claimed: the laps of an activity of the collection are populated
\* (its payload holding running lap items) exactly if its sport type is a
\* running variant (100, 101) or a biking variant (200, 201, 204).
C13_LapsForRunningAndBiking ==
  \A k \in 1..Len(activities.root) :
    activities.root[k].laps =
      IF SportTypeOf(activities.root[k].summary) \in {100, 101, 200, 201, 204}
        THEN "laps"
        ELSE "empty"

\* raw lap data as the vendor sends it: every item has a type, and a
\* running item has a lapItemList of laps that Lap accepts
WellFormedLaps(raw) ==
  \A k \in 1..Len(raw) :
    /\ "type" \in DOMAIN raw[k]
    /\ raw[k]["type"] = 2 =>
         /\ "lapItemList" \in DOMAIN raw[k]
         /\ \A j \in 1..Len(raw[k]["lapItemList"]) : raw[k]["lapItemList"][j].valid

\* C14: for a lap-supporting sport type get_laps_data returns the
\* concatenation, in input order, of the lapItemList entries of exactly the
\* raw items of type 2 (running); items of type 1 (biking) or of any other
\* type contribute nothing.
C14_OnlyRunningLapItemsExpanded ==
  (call.fn = "get_laps_data" /\ call.args[1] \in {100, 101}
     /\ WellFormedLaps(call.args[2]))
    => /\ call.result.raises = "none"
       /\ call.result.value =
            Flatten([k \in 1..Len(call.args[2]) |->
                       IF call.args[2][k]["type"] = 2
                         THEN LapsOfItem(call.args[2][k])
                         ELSE <<>>])

\* C14 witness: a run whose raw data holds a biking item with laps and then
\* a running item with two laps has returned the two laps of the latter
C14_Witness ==
  /\ call.fn = "get_laps_data"
  /\ call.args[1] = 101
  /\ Len(call.args[2]) = 2
  /\ DOMAIN call.args[2][1] = {"type", "lapItemList"}
  /\ call.args[2][1]["type"] = 1
  /\ call.args[2][1]["lapItemList"] # <<>>
  /\ DOMAIN call.args[2][2] = {"type", "lapItemList"}
  /\ call.args[2][2]["type"] = 2
  /\ call.result = [raises |-> "none",
                    value |-> <<[lapIndex |-> 2], [lapIndex |-> 3]>>]

\* C15: for every list of sample items, each with any subset of the fields
\* cadence, distance, heart, heartLevel, timestamp, get_activity_data
\* returns five sequences of the length of the input, position i of each
\* holding item i's value of the field, or 0 when item i lacks it.
C15_FiveSequencesOfInputLength ==
  call.fn = "get_activity_data" =>
    LET data == call.args[1]
        freq == call.result.value
        fields == {"cadence", "distance", "heart", "heartLevel", "timestamp"}
    IN  /\ call.result.raises = "none"
        /\ DOMAIN freq = fields
        /\ \A f \in fields :
             /\ Len(freq[f]) = Len(data)
             /\ \A i \in 1..Len(data) :
                  freq[f][i] = IF f \in DOMAIN data[i] THEN data[i][f] ELSE 0

\* C15 witness: two items, the first without heart and the second without
\* cadence, have given sequences of length two with the zeros in place
C15_Witness ==
  /\ call.fn = "get_activity_data"
  /\ Len(call.args[1]) = 2
  /\ "heart" \notin DOMAIN call.args[1][1]
  /\ "cadence" \in DOMAIN call.args[1][1]
  /\ "heart" \in DOMAIN call.args[1][2]
  /\ "cadence" \notin DOMAIN call.args[1][2]
  /\ call.result.value["heart"] = <<0, 3>>
  /\ call.result.value["cadence"] = <<1, 0>>
  /\ Len(call.result.value["timestamp"]) = 2

\* the instant of a datetime, in microseconds after the epoch
InstantOf(dt) == (dt.seconds - dt.utcoffset) * 1000000 + dt.microsecond

\* C16 as claimed: every summary that translation produces has
\* endTimestamp >= startTimestamp, whatever payload the server returned.
C16_EndNotBeforeStart ==
  (call.fn = "get_summary_data" /\ call.result.raises = "none")
    => InstantOf(call.result.value.endTimestamp)
         >= InstantOf(call.result.value.startTimestamp)

\* the instant that an ISO-8601 text denotes, in microseconds after the
\* epoch
IsoInstant(iso) ==
  (iso.date_time - iso.offset) * 1000000
    + (IF iso.fraction = <<>> THEN 0 ELSE iso.fraction[1])

KnownAndUnsupported(st, ft) ==
  /\ ft \in {1, 2}
  /\ st \in {101, 201, 400, 800, 901, 903, 904}

\* C18: in an export run, for a listed activity whose sport type is a known
\* ActivityType that does not support the requested file type, the
\* exporter issues no download-handle request and no stream request, writes
\* no file, and goes on with the next listed activity without raising.
C18_UnsupportedFileTypeSkipped ==
  [][ (op = "export_activities" /\ pc = "export"
         /\ KnownAndUnsupported(refs[idx].sportType, Val(file_type)))
      => /\ requests' = <<>>
         /\ files' = files
         /\ raised' = "none"
         /\ idx' = idx + 1
         /\ pc' = IF idx < Len(refs) THEN "export" ELSE "done" ]_vars

\* C18 witness: a GPX export stands at its third activity after it has
\* written the file of the first one and skipped the indoor bike ride that
\* came second
C18_Witness ==
  /\ op = "export_activities"
  /\ pc = "export"
  /\ file_type = {1}
  /\ idx = 3
  /\ refs[2].sportType = 201
  /\ files = {refs[1].labelId}
  /\ requests = <<>>
  /\ stepLog = <<"debug:unsupported">>
  /\ raised = "none"

\* C19 as claimed: in an export run, for a listed activity of a known or an
\* unknown sport type, at any position of the listing, whose
\* download-handle response has no data key, the exporter logs at info
\* level, issues no stream request (so writes no file for it) and goes on
\* with the next listed activity without raising.
C19_MissingDataKeySkipped ==
  (op = "export_activities" /\ requests # <<>> /\ requests[1].outcome = "nodata")
    => /\ raised = "none"
       /\ "info:no-download" \in Range(stepLog)
       /\ Len(requests) = 1
       /\ pc = IF idx <= Len(refs) THEN "export" ELSE "done"

\* C20 as claimed: in an export run, a transport error of the
\* download-handle request or of the fetch of the file ends the work on
\* that activity only: export_activities does not raise, and the run ends
\* only after the last listed activity.
C20_TransportErrorSkipsOneFile ==
  (op = "export_activities" /\ requests # <<>>
     /\ requests[Len(requests)].outcome \in {"fail", "exception", "readfail"})
    => /\ raised = "none"
       /\ pc = IF idx <= Len(refs) THEN "export" ELSE "done"

\* C21: every HTTP session that get_activities, extract_data or
\* export_activities opens is open while the operation runs and closed once
\* it has ended, whether it returned or raised (in the listing, while
\* processing an activity, or while exporting).
C21_SessionsClosedOnEveryExit ==
  /\ pc = "done" => sessions = {}
  /\ (op \in {"get_activities", "extract_data", "export_activities"}
      /\ pc \notin {"idle", "done"}) => sessions # {}
  /\ (op = "export_activities" /\ pc = "export")
       => sessions = {"dl_session", "query_session"}
  /\ (op = "extract_data" /\ pc = "attempt") => sessions = {"session"}

\* an export ended by an exception of the stream request, after an
\* extraction that an exception ended
C21_Witness ==
  /\ op = "export_activities"
  /\ pc = "done"
  /\ raised = "ConnectionError"
  /\ requests # <<>>
  /\ activities.loaded
  /\ sessions = {}

\* the timeout budgets that the client names
TimeoutBudgets ==
  {"SIMPLE_QUERY_API_TIMEOUT", "GET_ACTIVITY_QUERY_TIMEOUT",
   "RAW_ACTIVITY_QUERY_API_TIMEOUT"}

\* C22: every network call (login, listing probe, listing page, detail
\* query, download-handle request, file stream request) is issued with one
\* of the fixed per-call timeouts.
C22_EveryCallHasTimeout ==
  /\ \A k \in 1..Len(loginLog) : loginLog[k].timeout \in TimeoutBudgets
  /\ \A k \in 1..Len(listLog) : listLog[k].timeout \in TimeoutBudgets
  /\ \A k \in 1..Len(fetchLog) : fetchLog[k].timeout \in TimeoutBudgets
  /\ \A k \in 1..Len(requests) : requests[k].timeout \in TimeoutBudgets

\* the response of the login request lacks the token field
LacksToken(r) == r.data # "obj" \/ "accessToken" \notin DOMAIN r.fields

\* C23: a login call issues exactly one authentication request; it raises
\* when the status of the response is not a success or when the body lacks
\* the token field; when it returns, the stored token and user id are the
\* accessToken and the userId of the response.
C23_LoginOneRequest ==
  (op = "login" /\ pc = "done") =>
    /\ Len(loginLog) = 1
    /\ LET r == loginLog[1].response IN
       /\ (r.status # "ok" \/ LacksToken(r)) => raised # "none"
       /\ raised = "none" =>
            /\ ~LacksToken(r)
            /\ "userId" \in DOMAIN r.fields
            /\ access_token = Some(r.fields["accessToken"])
            /\ user_id = Some(r.fields["userId"])

\* a login that returned, answered with a token and a user id that differ
\* and that replace those of an earlier login
C23_Witness ==
  /\ op = "login"
  /\ pc = "done"
  /\ raised = "none"
  /\ access_token = Some(2)
  /\ user_id = Some(1)
  /\ loginLog[1].response.fields = [k \in {"accessToken", "userId"} |->
                                      IF k = "accessToken" THEN 2 ELSE 1]

\* C24: the stored token and user id are those of the most recent login
\* that succeeded (none before the first), whatever operations ran since,
\* and every listing, detail and download-handle request carries the stored
\* token.
C24_TokenOfLastSuccessfulLogin ==
  /\ lastLogin = None => (access_token = None /\ user_id = None)
  /\ lastLogin # None =>
       /\ access_token = Some(Val(lastLogin)[1])
       /\ user_id = Some(Val(lastLogin)[2])
  /\ \A k \in 1..Len(listLog) : listLog[k].token = access_token
  /\ \A k \in 1..Len(fetchLog) : fetchLog[k].token = access_token
  /\ \A k \in 1..Len(requests) :
       requests[k].kind = "handle" => requests[k].token = access_token

\* C25: the error that ends an exhausted detail fetch names the detail
\* endpoint and the number of attempts made: whatever max_tries is, the
\* count in the message is the number of detail requests of the call.
C25_MessageCountsAttempts ==
  (op = "get_raw_activity_data" /\ pc = "done" /\ raised = "RuntimeError") =>
    /\ err_msg # None
    /\ Val(err_msg).endpoint = "ACTIVITY_DETAILS_URL"
    /\ Val(err_msg).attempts = Len(fetchLog)

\* C26: a fetch sleeps once, for the same fixed duration, between each pair
\* of consecutive attempts and nowhere else: while another attempt is to
\* come every attempt made was followed by a sleep, and a fetch that made k
\* attempts has slept k-1 times (not after the attempt that returned, not
\* after the last failed attempt).
C26_OneSleepBetweenAttempts ==
  op = "get_raw_activity_data" =>
    /\ \A k \in 1..Len(sleeps) : sleeps[k] = 500
    /\ pc = "attempt" => Len(sleeps) = Len(fetchLog)
    /\ (pc = "done" /\ fetchLog # <<>>) => Len(sleeps) = Len(fetchLog) - 1
    /\ (pc = "done" /\ fetchLog = <<>>) => sleeps = <<>>

\* a fetch that returned at its third attempt, after two sleeps
C26_Witness ==
  /\ op = "get_raw_activity_data"
  /\ pc = "done"
  /\ fetchEnd = "returned"
  /\ Len(fetchLog) = 3
  /\ Len(sleeps) = 2

\* where an extraction run stands: every detail request of the fetch in
\* progress is for the reference the run has reached
C27_FetchIsForCurrentReference ==
  (op = "extract_data" /\ pc = "attempt") =>
    /\ idx \in 1..Len(refs)
    /\ activity = refs[idx]
    /\ \A k \in 1..Len(fetchLog) :
         /\ fetchLog[k].labelId = refs[idx].labelId
         /\ fetchLog[k].sportType = refs[idx].sportType

\* one step of an extraction run that has started
C27_Step ==
  (op = "extract_data" /\ op' = "extract_data" /\ pc \notin {"idle", "done"}) =>
    \* a step issues one request, a listing request or a detail request
    /\ pc \in {"probe", "pages"} =>
         /\ Len(listLog') = Len(listLog) + 1
         /\ SubSeq(listLog', 1, Len(listLog)) = listLog
         /\ fetchLog = <<>> /\ fetchLog' = <<>>
         /\ idx = 0
         \* the probe comes first, the pages in ascending order
         /\ listLog'[Len(listLog')].kind = "probe" => listLog = <<>>
         /\ listLog'[Len(listLog')].kind = "page" =>
              listLog'[Len(listLog')].pageNumber
                = Cardinality({k \in 1..Len(listLog) : listLog[k].kind = "page"}) + 1
    \* once the first detail request is due no listing request follows, and
    \* the run goes through the references one by one, never back
    /\ pc = "attempt" =>
         /\ listLog' = listLog
         /\ refs' = refs
         /\ idx' \in {idx, idx + 1}
         /\ idx' = idx =>
              \/ fetchLog' = Append(fetchLog, fetchLog'[Len(fetchLog')])
              \/ pc' = "done"
         /\ Len(fetchLog') <= Len(fetchLog) + 1

\* C27: within one extraction run the requests are strictly ordered and do
\* not overlap: all listing requests (the probe, then the pages in ascending
\* order) come before the first detail request, all detail requests for
\* reference i before any for reference i+1, and each step issues one
\* request and has its answer.
C27_RequestsStrictlyOrdered == []C27_FetchIsForCurrentReference /\ [][C27_Step]_vars

\* an extraction run at its second reference, after a probe and a page,
\* with a failed detail request behind it
C27_Witness ==
  /\ op = "extract_data"
  /\ pc = "attempt"
  /\ idx = 2
  /\ Len(listLog) >= 2
  /\ listLog[1].kind = "probe"
  /\ fetchLog # <<>>

\* the entries of a log
Logged(lg) == {lg[k] : k \in 1..Len(lg)}

\* one step of an extraction or an export, and the LOGGER calls it made
C28_Step ==
  /\ (op = "extract_data" /\ pc = "attempt") =>
       \* a failed attempt that is followed by another one
       /\ (pc' = "attempt" /\ idx' = idx) =>
            LET r == fetchLog'[Len(fetchLog')] IN
            /\ r.exception => "exception:download" \in Logged(stepLog')
            /\ ~r.exception => "error:malformed" \in Logged(stepLog')
       \* a fetch that failed for good, caught by the run
       /\ (fetchEnd' = "RuntimeError" /\ raised' = "none") =>
            /\ Logged(stepLog') \cap {"exception:download", "error:malformed"} # {}
            /\ "exception:processing" \in Logged(stepLog')
       \* an activity skipped, for a fetch failure or a translation failure
       /\ (Len(succeeded') = Len(succeeded) + 1 /\ ~succeeded'[Len(succeeded')]) =>
            "exception:processing" \in Logged(stepLog')
  /\ (op = "export_activities" /\ pc = "export") =>
       \* an activity skipped without a request: unsupported file type
       /\ (idx' = idx + 1 /\ requests' = <<>>) =>
            "debug:unsupported" \in Logged(stepLog')
       \* an activity of an unknown sport type
       /\ refs[idx].sportType \in {998, 999} =>
            "debug:unknown-sport-type" \in Logged(stepLog')
       \* an activity skipped for a response without a download
       /\ (idx' = idx + 1 /\ Len(requests') = 1) =>
            /\ requests'[1].outcome = "nodata"
            /\ "info:no-download" \in Logged(stepLog')

\* C28: every failure that the extractor handles without propagating is
\* logged before processing moves on: each failed detail attempt (exception
\* or invalid payload), each activity skipped in extraction (fetch failure
\* or translation failure), each activity skipped in export (unsupported
\* file type, unknown sport type, missing download URL).
C28_HandledFailuresAreLogged == [][C28_Step]_vars

\* an extraction that has just skipped its first activity after a last
\* attempt answered by an invalid payload, and goes on with the second
C28_Witness ==
  /\ op = "extract_data"
  /\ pc = "attempt"
  /\ idx = 2
  /\ succeeded = <<FALSE>>
  /\ stepLog = <<"error:malformed", "exception:processing">>

\* C29: supports_export depends on the sport type and the file type only:
\* it is true for CSV (0), TCX (3) and FIT (4) whatever the sport type; for
\* GPX (1) and KML (2) it is true for OUTDOOR_RUN, HIKE, WALK, MULTISPORT,
\* the outdoor climb types (OUTDOOR_CLIMB, BOULDERING), the snowsport types
\* (SKI, SNOWBOARD, SKI_TOURING) and the outdoor bike types (ROAD_BIKE,
\* MOUNTAIN_BIKE), and false for INDOOR_RUN, INDOOR_BIKE, GYM_CARDIO,
\* INDOOR_CLIMB, JUMP_ROPE, ELLIPTICAL and YOGA.
C29_SupportsExportTable ==
  call.fn = "supports_export" =>
    LET st == call.args[1]
        ft == call.args[2]
    IN  /\ call.result.raises = "none"
        /\ call.result.value \in BOOLEAN
        /\ ft \in {0, 3, 4} => call.result.value
        /\ (ft \in {1, 2}
            /\ st \in {100, 104, 900, 10001, 802, 801, 500, 501, 503, 200, 204})
             => call.result.value
        /\ (ft \in {1, 2} /\ st \in {101, 201, 400, 800, 901, 903, 904})
             => ~call.result.value
        /\ st \in {100, 104, 900, 10001, 802, 801, 500, 501, 503, 200, 204}
                    \cup {101, 201, 400, 800, 901, 903, 904}

\* supports_export(KML) called on INDOOR_BIKE, answered False
C29_Witness ==
  /\ call.fn = "supports_export"
  /\ call.args = <<201, 2>>
  /\ call.result.value = FALSE

\* C30: a to_json call writes the output file if and only if an earlier
\* extract_data call on the extractor got past its listing step; before
\* that it writes nothing, and it does not raise.  What it writes is the
\* collection as it stands.
C30_ToJsonWritesAfterListing ==
  (op = "to_json" /\ pc = "done") =>
    /\ raised = "none"
    /\ json_file # None <=> pastListing
    /\ json_file # None => Val(json_file) = activities.root

\* a to_json call that wrote a collection without activities
C30_Witness ==
  /\ op = "to_json"
  /\ pc = "done"
  /\ pastListing
  /\ json_file = Some(<<>>)
  /\ serverCount > 0

\* a to_json call that wrote nothing, on an extractor that has not
\* extracted
C30_WitnessNothingWritten ==
  /\ op = "to_json"
  /\ pc = "done"
  /\ ~pastListing
  /\ json_file = None
  /\ stepLog = <<"debug:no-activities">>

\* C31: a login call that raises (non-success status, response without
\* data, without accessToken or without userId) leaves both the stored
\* access token and the stored user id as they were before the call.
C31_LoginIsAtomic ==
  [][(pc \in {"idle", "done"} /\ op' = "login" /\ raised' # "none")
       => (access_token' = access_token /\ user_id' = user_id)]_vars

\* one step of extract_data up to the end of its listing
C32_Step ==
  (op' = "extract_data" /\ pc \in {"idle", "done", "probe", "pages"}) =>
    IF listResult' = <<>>
      THEN \* the listing goes on, or has failed
           activities' = activities
      ELSE \* the listing has returned
           /\ raised' = "none"
           /\ activities' = [loaded |-> TRUE, root |-> <<>>]

\* C32: when the listing step of extract_data fails the activities
\* collection is as it was before the call (None, or the collection of the
\* previous run); it is replaced by a fresh empty collection only once the
\* listing has succeeded.
C32_ListingFailureKeepsActivities == [][C32_Step]_vars

\* an extract_data call whose listing failed at a request, on an extractor
\* that holds the activities of an earlier run
C32_Witness ==
  /\ op = "extract_data"
  /\ pc = "done"
  /\ raised = "HTTPError"
  /\ listLog # <<>>
  /\ activities.loaded
  /\ activities.root # <<>>

\* the sport type codes that are members of ActivityType
KnownSportTypeCodes ==
  {100, 101, 104, 200, 201, 204, 400, 500, 501, 503, 800, 801, 802, 900, 901, 903,
   904, 10001}

\* C33: in an export run, a listed activity whose sport type code is not a
\* member of ActivityType is not skipped by the capability check: the turn
\* of the loop logs it and issues the download-handle request for it, with
\* its labelId, the raw sport type code and the requested file type,
\* whatever that file type is.
C33_UnknownSportTypeStillRequested ==
  [][(op = "export_activities" /\ pc = "export"
      /\ refs[idx].sportType \notin KnownSportTypeCodes)
       => /\ "debug:unknown-sport-type" \in Logged(stepLog')
          /\ requests' # <<>>
          /\ requests'[1].kind = "handle"
          /\ requests'[1].labelId = refs[idx].labelId
          /\ requests'[1].sportType = refs[idx].sportType
          /\ requests'[1].fileType = Val(file_type)]_vars

\* a GPX export that has downloaded the file of an activity of the unknown
\* sport type 999
C33_Witness ==
  /\ op = "export_activities"
  /\ file_type = Some(1)
  /\ Len(requests) = 2
  /\ requests[1].kind = "handle"
  /\ requests[1].sportType = 999
  /\ requests[2].outcome = "ok"
  /\ "debug:unknown-sport-type" \in Logged(stepLog)
  /\ files # {}

\* C34: the limit a listing uses is the limit argument when it is not None,
\* otherwise the default_activity_query_limit of the instance; the probe
\* request and the discovery of the total happen only when both are None:
\* an extractor built with a default limit issues no probe request when it
\* lists without a limit argument.
C34_LimitResolution ==
  (op \in {"get_activities", "extract_data"} /\ pc # "idle") =>
    LET expected == IF arg_limit # None
                      THEN arg_limit
                      ELSE default_activity_query_limit
    IN  /\ expected # None =>
             /\ limit = expected
             /\ total_activities = Val(expected)
             /\ \A k \in 1..Len(listLog) :
                  /\ listLog[k].kind = "page"
                  /\ listLog[k].size = Min(Val(expected), ACTIVITY_PAGINATION_LIMIT)
        /\ expected = None =>
             /\ listLog # <<>> => listLog[1].kind = "probe"
             /\ pc = "pages" => (listLog # <<>> /\ total_activities = serverCount)
        /\ (\E k \in 1..Len(listLog) : listLog[k].kind = "probe")
             => (arg_limit = None /\ default_activity_query_limit = None)

\* a listing without a limit argument, by an extractor built with a default
\* limit, that returned after page requests
C34_Witness ==
  /\ op = "get_activities"
  /\ pc = "done"
  /\ raised = "none"
  /\ arg_limit = None
  /\ default_activity_query_limit # None
  /\ listLog # <<>>
  /\ \A k \in 1..Len(listLog) : listLog[k].kind = "page"

=============================================================================
